---- MODULE Spec2Model ----
(***************************************************************************)
(* A model of src/main.py: a transaction queue (Transactions), blocks with *)
(* proof-of-work mining (Block) and the chain of blocks (Blockchain).      *)
(*                                                                         *)
(* Python objects live in two heaps, so that copying and aliasing differ:  *)
(*   lists : the Python list objects holding transactions (Transactions.lst)*)
(*   objs  : the Transactions objects, each [lst |-> list ref, count]      *)
(* A reference is a position in its heap.  Blocks are only ever reached    *)
(* through Blockchain.lst, so they are kept inline in blockchain.lst.      *)
(*                                                                         *)
(* A string of hexadecimal characters is a sequence of digits 0..Radix-1;  *)
(* the empty string "" is <<>>.  SHA-256 is replaced by a deterministic    *)
(* mixing function with a digest of DigestLen hex digits (64 in the code). *)
(* Transaction.timestamp is read only by sign/to_dict and is left out:     *)
(* a transaction is its (sender, receiver, value).                         *)
(*                                                                         *)
(* Block.mine is a loop, modelled one iteration per step: the program is   *)
(* single threaded, so while pc = "mine" no other call can start.          *)
(***************************************************************************)
EXTENDS Integers, Sequences, FiniteSets, TLC

VARIABLES lists, objs, blockchain, pc, ret, err

vars == <<lists, objs, blockchain, pc, ret, err>>

\* ---------------------------------------------------------------- bounds
\* Spec (the chain): at most MaxBlocks blocks, a pool of at most ChainPool
\* transactions.  SpecPool (the pool): a pool of at most MaxPool
\* transactions, at most PoolBlocks blocks.  SpecMine (one search): a pool
\* of at most ChainPool transactions, at most PoolBlocks blocks.  MaxNonce caps the nonce search,
\* DigestLen is the number of hex digits of a digest.
MaxBlocks == 2
ChainPool == 2
MaxPool == 2
PoolBlocks == 1
MaxNonce == 16
DigestLen == 1

\* ------------------------------------------------------------- constants
Radix == 16
None == -1
transactions == 1

Difficulties == 0 .. (DigestLen + 1)
Transfers == { <<"arad", "alon", 10>>, <<"daniel", "tyom", 7>> }
\* the chain specifications draw one kind of transfer only
ChainTransfers == { <<"arad", "alon", 10>> }

\* ------------------------------------------------------------ pure parts
Modulus == Radix ^ DigestLen

HexDigits(n) == [i \in 1 .. DigestLen |-> (n \div (Radix ^ (DigestLen - i))) % Radix]

RECURSIVE Mix(_, _)
Mix(acc, message) ==
    IF message = <<>> THEN acc
    ELSE Mix((acc * 31 + Head(message) + 7) % Modulus, Tail(message))

sha256(message) == HexDigits(Mix(5, message))

identity(name) ==
    CASE name = "arad" -> 1
      [] name = "alon" -> 2
      [] name = "daniel" -> 3
      [] name = "tyom" -> 4

Transaction(sender, receiver, value) ==
    [sender |-> sender, receiver |-> receiver, value |-> value]

to_dict(t) == <<identity(t.sender), identity(t.receiver), t.value>>

sign(t) == <<identity(t.sender)>> \o sha256(to_dict(t))

Zeros(n) == [i \in 1 .. n |-> 0]

\* mutant: an empty suffix matches nothing
endswith_nonempty(s, suffix) ==
    /\ Len(suffix) > 0
    /\ Len(suffix) <= Len(s)
    /\ SubSeq(s, Len(s) - Len(suffix) + 1, Len(s)) = suffix

endswith(s, suffix) ==
    /\ Len(suffix) <= Len(s)
    /\ SubSeq(s, Len(s) - Len(suffix) + 1, Len(s)) = suffix

\* mutant: the element before the one asked for
PyIndex_off(lst, i) == IF i < 0 THEN i + Len(lst) + 1 ELSE i

\* Python's list[i]: a negative index counts from the end
PyIndex(lst, i) == IF i < 0 THEN i + Len(lst) + 1 ELSE i + 1
PyIndexOK(lst, i) == PyIndex(lst, i) \in 1 .. Len(lst)

\* ---------------------------------------------------------- Transactions
\* mutant: the new Transactions object shares the list of the old one
copy_shallow(ls, os, ref) ==
    [lists |-> ls,
     objs  |-> Append(os, [lst |-> os[ref].lst, count |-> os[ref].count]),
     ref   |-> Len(os) + 1]

copy(ls, os, ref) ==
    [lists |-> Append(ls, ls[os[ref].lst]),
     objs  |-> Append(os, [lst |-> Len(ls) + 1, count |-> os[ref].count]),
     ref   |-> Len(os) + 1]

\* ----------------------------------------------------------------- Block
RECURSIVE SignAll(_)
SignAll(txs) == IF txs = <<>> THEN <<>> ELSE sign(Head(txs)) \o SignAll(Tail(txs))

\* mutant: the Transactions object itself is hashed with its signatures
compute_transaction_hash_obj(ls, os, ref) == sha256(<<ref>> \o SignAll(ls[os[ref].lst]))

compute_transaction_hash(ls, os, ref) == sha256(SignAll(ls[os[ref].lst]))

header_to_dict(b) ==
    b.previous_hash \o <<b.difficulty>> \o b.transaction_hash \o <<b.nonce>>

\* mutant: one zero too few is asked for
validate_difficulty_short(b, data) ==
    LET digest == sha256(data)
    IN  IF endswith(digest, Zeros(b.difficulty - 1)) THEN <<digest, TRUE>>
        ELSE <<digest, FALSE>>

validate_difficulty(b, data) ==
    LET digest == sha256(data)
    IN  IF endswith(digest, Zeros(b.difficulty)) THEN <<digest, TRUE>>
        ELSE <<digest, FALSE>>

\* mutant: the block is not linked to last_hash
Block_nolink(ls, os, ref, previous_hash, difficulty) ==
    [verified_transactions |-> ref,
     previous_hash         |-> <<>>,
     difficulty            |-> difficulty,
     transaction_hash      |-> compute_transaction_hash(ls, os, ref),
     nonce                 |-> None]

\* mutant: the transaction hash is stored as previous_hash
Block_selflink(ls, os, ref, previous_hash, difficulty) ==
    [verified_transactions |-> ref,
     previous_hash         |-> compute_transaction_hash(ls, os, ref),
     difficulty            |-> difficulty,
     transaction_hash      |-> compute_transaction_hash(ls, os, ref),
     nonce                 |-> None]

Block(ls, os, ref, previous_hash, difficulty) ==
    [verified_transactions |-> ref,
     previous_hash         |-> previous_hash,
     difficulty            |-> difficulty,
     transaction_hash      |-> compute_transaction_hash(ls, os, ref),
     nonce                 |-> None]

\* ------------------------------------------------------------------ state
NoRet == << <<>>, FALSE >>

Init ==
    /\ lists = << <<>> >>
    /\ objs = << [lst |-> 1, count |-> 0] >>
    /\ blockchain = [lst |-> <<>>, count |-> 0, last_hash |-> <<>>]
    /\ pc = "idle"
    /\ ret = NoRet
    /\ err = "none"

PoolList == lists[objs[transactions].lst]

\* mutant: lst[0] in place of lst[count-1]
Last_first == PyIndex(blockchain.lst, 0)

Last == PyIndex(blockchain.lst, blockchain.count - 1)

\* mutant: the new transaction is put at the front of the queue
transfer_front(limit, sender, receiver, value) ==
    /\ pc = "idle"
    /\ Len(PoolList) < limit
    /\ lists' = [lists EXCEPT ![objs[transactions].lst] =
                    <<Transaction(sender, receiver, value)>> \o @]
    /\ objs' = [objs EXCEPT ![transactions].count = @ + 1]
    /\ err' = "none"
    /\ UNCHANGED <<blockchain, pc, ret>>

\* Transactions.transfer
transfer(limit, sender, receiver, value) ==
    /\ pc = "idle"
    /\ Len(PoolList) < limit
    /\ lists' = [lists EXCEPT ![objs[transactions].lst] =
                    Append(@, Transaction(sender, receiver, value))]
    /\ objs' = [objs EXCEPT ![transactions].count = @ + 1]
    /\ err' = "none"
    /\ UNCHANGED <<blockchain, pc, ret>>

\* mutant: the count is not reset
clear_keeps_count ==
    /\ pc = "idle"
    /\ lists' = [lists EXCEPT ![objs[transactions].lst] = <<>>]
    /\ err' = "none"
    /\ UNCHANGED <<objs, blockchain, pc, ret>>

\* Transactions.clear
clear ==
    /\ pc = "idle"
    /\ lists' = [lists EXCEPT ![objs[transactions].lst] = <<>>]
    /\ objs' = [objs EXCEPT ![transactions].count = 0]
    /\ err' = "none"
    /\ UNCHANGED <<blockchain, pc, ret>>

\* mutant: the new block is put at the front of the chain
create_block_prepend(limit, difficulty) ==
    /\ pc = "idle"
    /\ blockchain.count < limit
    /\ LET c == copy(lists, objs, transactions)
           b == Block(c.lists, c.objs, c.ref, blockchain.last_hash, difficulty)
       IN  /\ lists' = c.lists
           /\ objs' = c.objs
           /\ blockchain' = [blockchain EXCEPT !.lst = <<b>> \o @,
                                               !.count = @ + 1]
    /\ err' = "none"
    /\ UNCHANGED <<pc, ret>>

\* mutant: the block is mined (nonce 0 accepted, last_hash set) as it is created
create_block_mines(limit, difficulty) ==
    /\ pc = "idle"
    /\ blockchain.count < limit
    /\ LET c == copy(lists, objs, transactions)
           b == [Block(c.lists, c.objs, c.ref, blockchain.last_hash, difficulty)
                    EXCEPT !.nonce = 0]
       IN  /\ lists' = c.lists
           /\ objs' = c.objs
           /\ blockchain' = [blockchain EXCEPT !.lst = Append(@, b),
                                               !.count = @ + 1,
                                               !.last_hash = sha256(header_to_dict(b))]
    /\ err' = "none"
    /\ UNCHANGED <<pc, ret>>

\* Blockchain.create_block (Block.__init__ and Transactions.__copy__ included)
create_block(limit, difficulty) ==
    /\ pc = "idle"
    /\ blockchain.count < limit
    /\ LET c == copy(lists, objs, transactions)
           b == Block(c.lists, c.objs, c.ref, blockchain.last_hash, difficulty)
       IN  /\ lists' = c.lists
           /\ objs' = c.objs
           /\ blockchain' = [blockchain EXCEPT !.lst = Append(@, b),
                                               !.count = @ + 1]
    /\ err' = "none"
    /\ UNCHANGED <<pc, ret>>

\* mutant: count is decremented before the lookup fails
mine_last_block_raise_resets ==
    /\ pc = "idle"
    /\ ~PyIndexOK(blockchain.lst, blockchain.count - 1)
    /\ err' = "IndexError"
    /\ blockchain' = [blockchain EXCEPT !.count = @ - 1]
    /\ UNCHANGED <<lists, objs, pc, ret>>

\* Blockchain.mine_last_block on a chain where lst[count-1] does not exist
mine_last_block_raise ==
    /\ pc = "idle"
    /\ ~PyIndexOK(blockchain.lst, blockchain.count - 1)
    /\ err' = "IndexError"
    /\ UNCHANGED <<lists, objs, blockchain, pc, ret>>

\* mutant: the first block is mined, not the last
mine_last_block_call_first ==
    /\ pc = "idle"
    /\ PyIndexOK(blockchain.lst, blockchain.count - 1)
    /\ LET b == [blockchain.lst[1] EXCEPT !.nonce = 0]
       IN  /\ blockchain' = [blockchain EXCEPT !.lst[1] = b]
           /\ ret' = validate_difficulty(b, header_to_dict(b))
    /\ pc' = "mine"
    /\ err' = "none"
    /\ UNCHANGED <<lists, objs>>

\* mutant: the search goes on from the stored nonce
mine_last_block_call_resume ==
    /\ pc = "idle"
    /\ PyIndexOK(blockchain.lst, blockchain.count - 1)
    /\ LET b == [blockchain.lst[Last] EXCEPT !.nonce = @ + 1]
       IN  /\ blockchain' = [blockchain EXCEPT !.lst[Last] = b]
           /\ ret' = validate_difficulty(b, header_to_dict(b))
    /\ pc' = "mine"
    /\ err' = "none"
    /\ UNCHANGED <<lists, objs>>

\* Blockchain.mine_last_block enters Block.mine: nonce 0 is tried
mine_last_block_call ==
    /\ pc = "idle"
    /\ PyIndexOK(blockchain.lst, blockchain.count - 1)
    /\ LET b == [blockchain.lst[Last] EXCEPT !.nonce = 0]
       IN  /\ blockchain' = [blockchain EXCEPT !.lst[Last] = b]
           /\ ret' = validate_difficulty(b, header_to_dict(b))
    /\ pc' = "mine"
    /\ err' = "none"
    /\ UNCHANGED <<lists, objs>>

\* mutant: the digest is not recomputed for the new nonce
mine_loop_stale ==
    /\ pc = "mine"
    /\ ~ret[2]
    /\ blockchain.lst[Last].nonce < MaxNonce
    /\ LET b == [blockchain.lst[Last] EXCEPT !.nonce = @ + 1]
       IN  blockchain' = [blockchain EXCEPT !.lst[Last] = b]
    /\ UNCHANGED <<lists, objs, pc, ret, err>>

\* mutant: each iteration hashes the transactions again, from the live pool
mine_loop_rehash ==
    /\ pc = "mine"
    /\ ~ret[2]
    /\ blockchain.lst[Last].nonce < MaxNonce
    /\ LET b == [blockchain.lst[Last] EXCEPT
                    !.nonce = @ + 1,
                    !.transaction_hash =
                        compute_transaction_hash(lists, objs, transactions)]
       IN  /\ blockchain' = [blockchain EXCEPT !.lst[Last] = b]
           /\ ret' = validate_difficulty(b, header_to_dict(b))
    /\ UNCHANGED <<lists, objs, pc, err>>

\* mutant: the nonce goes up by two
mine_loop_skip ==
    /\ pc = "mine"
    /\ ~ret[2]
    /\ blockchain.lst[Last].nonce < MaxNonce
    /\ LET b == [blockchain.lst[Last] EXCEPT !.nonce = @ + 2]
       IN  /\ blockchain' = [blockchain EXCEPT !.lst[Last] = b]
           /\ ret' = validate_difficulty(b, header_to_dict(b))
    /\ UNCHANGED <<lists, objs, pc, err>>

\* one iteration of the while loop of Block.mine
mine_loop ==
    /\ pc = "mine"
    /\ ~ret[2]
    /\ blockchain.lst[Last].nonce < MaxNonce
    /\ LET b == [blockchain.lst[Last] EXCEPT !.nonce = @ + 1]
       IN  /\ blockchain' = [blockchain EXCEPT !.lst[Last] = b]
           /\ ret' = validate_difficulty(b, header_to_dict(b))
    /\ UNCHANGED <<lists, objs, pc, err>>

\* mutant: the digest returned by mine is dropped
mine_last_block_return_drops ==
    /\ pc = "mine"
    /\ ret[2]
    /\ pc' = "idle"
    /\ ret' = NoRet
    /\ UNCHANGED <<lists, objs, blockchain, err>>

\* Block.mine returns digest; mine_last_block stores it in last_hash
mine_last_block_return ==
    /\ pc = "mine"
    /\ ret[2]
    /\ blockchain' = [blockchain EXCEPT !.last_hash = ret[1]]
    /\ pc' = "idle"
    /\ ret' = NoRet
    /\ UNCHANGED <<lists, objs, err>>

Next ==
    \/ \E t \in ChainTransfers : transfer(ChainPool, t[1], t[2], t[3])
    \/ clear
    \/ \E d \in Difficulties : create_block(MaxBlocks, d)
    \/ mine_last_block_raise
    \/ mine_last_block_call
    \/ mine_loop
    \/ mine_last_block_return

Spec == Init /\ [][Next]_vars

\* the same program with a larger pool and a shorter chain
NextPool ==
    \/ \E t \in Transfers : transfer(MaxPool, t[1], t[2], t[3])
    \/ clear
    \/ \E d \in Difficulties : create_block(PoolBlocks, d)
    \/ mine_last_block_raise
    \/ mine_last_block_call
    \/ mine_loop
    \/ mine_last_block_return

SpecPool == Init /\ [][NextPool]_vars

\* Block.mine is a tight loop on the caller's thread: once entered, the next
\* iteration and the return are always taken
NextMine ==
    \/ \E t \in ChainTransfers : transfer(ChainPool, t[1], t[2], t[3])
    \/ clear
    \/ \E d \in Difficulties : create_block(PoolBlocks, d)
    \/ mine_last_block_raise
    \/ mine_last_block_call
    \/ mine_loop
    \/ mine_last_block_return

SpecMine ==
    /\ Init
    /\ [][NextMine]_vars
    /\ WF_vars(mine_loop)
    /\ WF_vars(mine_last_block_return)

\* a caller that, like main, mines each block before it creates the next
LastMined ==
    /\ blockchain.count > 0
    /\ blockchain.lst[Last].nonce # None

alt_create_block(difficulty) ==
    /\ blockchain.count = 0 \/ LastMined
    /\ create_block(MaxBlocks, difficulty)

alt_mine_last_block ==
    /\ blockchain.count > 0
    /\ ~LastMined
    /\ mine_last_block_call

NextAlt ==
    \/ \E t \in ChainTransfers : transfer(ChainPool, t[1], t[2], t[3])
    \/ clear
    \/ \E d \in Difficulties : alt_create_block(d)
    \/ alt_mine_last_block
    \/ mine_loop
    \/ mine_last_block_return

SpecAlt == Init /\ [][NextAlt]_vars

\* ================================================================ claims
Chain == blockchain.lst
ProofHash(b) == sha256(header_to_dict(b))
SnapshotIn(ls, os, b) == <<ls[os[b.verified_transactions].lst],
                           os[b.verified_transactions].count>>
Snapshot(b) == SnapshotIn(lists, objs, b)

\* the states of a block (spec 4.4), by its position i in the chain
Mining(i) == pc = "mine" /\ i = Last
Constructed(i) == Chain[i].nonce = None
Mined(i) == Chain[i].nonce # None /\ ~Mining(i)

\* ---------------------------------------------------------------- C1
\* C1 as stated: in every reachable state block 0's previous_hash is "" and
\* every later block's previous_hash is the proof hash produced by mining
\* the block before it (which therefore has been mined).
C1_Original ==
    \A i \in 1 .. Len(Chain) :
        IF i = 1 THEN Chain[i].previous_hash = <<>>
        ELSE /\ Chain[i - 1].nonce # None
             /\ Chain[i].previous_hash = ProofHash(Chain[i - 1])

\* C1 amended: block 0's previous_hash is ""; a later block's previous_hash
\* is the proof hash of the block before it when that block has been mined,
\* and otherwise repeats the previous_hash of the block before it.
C1_Linkage ==
    \A i \in 1 .. Len(Chain) :
        IF i = 1 THEN Chain[i].previous_hash = <<>>
        ELSE IF Chain[i - 1].nonce # None
             THEN Chain[i].previous_hash = ProofHash(Chain[i - 1])
             ELSE Chain[i].previous_hash = Chain[i - 1].previous_hash

C1_Witness ==
    /\ Len(Chain) >= 2
    /\ Mined(1)
    /\ Chain[2].previous_hash = ProofHash(Chain[1])
    /\ Chain[2].previous_hash # <<>>

\* ---------------------------------------------------------------- C2
\* C2: when every block is mined before the next is created, each later
\* block's previous_hash is the proof hash of the block before it, and
\* between calls last_hash is the proof hash mine returned for the newest
\* mined block (the value the next block will carry).
C2_Alternating ==
    /\ \A i \in 2 .. Len(Chain) :
          /\ Mined(i - 1)
          /\ Chain[i].previous_hash = ProofHash(Chain[i - 1])
    /\ (pc = "idle" /\ LastMined) => blockchain.last_hash = ProofHash(Chain[Last])
    /\ (pc = "idle" /\ blockchain.count > 0 /\ ~LastMined) =>
          blockchain.last_hash = Chain[Last].previous_hash

C2_Witness ==
    /\ Len(Chain) = 2
    /\ pc = "idle"
    /\ Mined(1) /\ Mined(2)
    /\ Chain[1].nonce > 0
    /\ Chain[2].previous_hash = ProofHash(Chain[1])
    /\ blockchain.last_hash = ProofHash(Chain[2])

\* ---------------------------------------------------------------- C3
\* C3: whenever Block.mine returns, the digest it returns (stored in
\* last_hash) ends in at least difficulty '0' characters and is the digest
\* of the header with the nonce left in the block.
C3_MineResult ==
    [][(pc = "mine" /\ pc' = "idle") =>
        LET b == blockchain'.lst[Last']
        IN  /\ blockchain'.last_hash = ret[1]
            /\ endswith(ret[1], Zeros(b.difficulty))
            /\ ret[1] = sha256(header_to_dict(b))
            /\ b.nonce = Chain[Last].nonce]_vars

C3_Witness ==
    /\ pc = "idle"
    /\ LastMined
    /\ Chain[Last].difficulty >= 1
    /\ Chain[Last].nonce > 0
    /\ endswith(blockchain.last_hash, Zeros(Chain[Last].difficulty))

C5_SnapshotIsolated ==
    [][\A i \in 1 .. Len(Chain) :
          /\ i <= Len(blockchain'.lst)
          /\ SnapshotIn(lists', objs', blockchain'.lst[i]) = Snapshot(Chain[i])]_vars

C5_Witness ==
    /\ Len(Chain) >= 1
    /\ Len(Snapshot(Chain[1])[1]) = 2
    /\ Snapshot(Chain[1])[2] = 2
    /\ PoolList = <<>>
    /\ objs[transactions].count = 0

\* ---------------------------------------------------------------- C6
\* C6 as stated: a block that is Mined stays Mined with the same nonce
\* across every step, a further mine_last_block included.
C6_Original ==
    [][\A i \in 1 .. Len(Chain) :
          Mined(i) => (Mined(i)' /\ blockchain'.lst[i].nonce = Chain[i].nonce)]_vars

\* C6 amended: no block returns to Constructed (its nonce never becomes
\* absent again), a block leaves Mining only to Mined, a Mined block that
\* stays Mined is unchanged, and a Mined block leaves Mined only when it is
\* the last block of the chain and mine_last_block is called again, which
\* puts it back into Mining with nonce 0.
C6_Forward ==
    [][\A i \in 1 .. Len(Chain) :
          /\ ~Constructed(i) => ~Constructed(i)'
          /\ Constructed(i) => (Constructed(i)' \/ (Mining(i)' /\ i = Len(Chain)))
          /\ Mining(i) => (Mining(i)' \/ Mined(i)')
          /\ (Mined(i) /\ Mined(i)') => blockchain'.lst[i] = Chain[i]
          /\ (Mined(i) /\ ~Mined(i)') =>
                /\ i = Len(Chain)
                /\ Mining(i)'
                /\ blockchain'.lst[i].nonce = 0]_vars

\* a second mine_last_block is running on the last block (last_hash has
\* moved since the block was created) while an earlier block is Mined
C6_Witness ==
    /\ Len(Chain) = 2
    /\ Mined(1)
    /\ Mining(2)
    /\ Chain[2].nonce > 0
    /\ Chain[2].previous_hash = ProofHash(Chain[1])
    /\ blockchain.last_hash # Chain[2].previous_hash

\* ---------------------------------------------------------------- C7
\* C7: the chain is append-only: every block keeps its index (a block is
\* identified by the Transactions object it owns), the sequence never
\* shrinks, count never decreases and count is the length of the sequence.
C7_AppendOnly ==
    [][/\ blockchain.count = Len(Chain)
       /\ blockchain'.count = Len(blockchain'.lst)
       /\ blockchain'.count >= blockchain.count
       /\ \A i \in 1 .. Len(Chain) :
             /\ i <= Len(blockchain'.lst)
             /\ blockchain'.lst[i].verified_transactions
                    = Chain[i].verified_transactions]_vars

C7_Witness ==
    /\ Len(Chain) = 2
    /\ blockchain.count = 2
    /\ Chain[1].verified_transactions # Chain[2].verified_transactions
    /\ Mined(2)

\* ---------------------------------------------------------------- C8
\* C8: a step that appends a block (create_block) appends exactly one, with
\* previous_hash = the current last_hash and nonce absent, adds one to
\* count, and leaves last_hash, the source pool and every earlier block
\* (its snapshot included) unchanged; it does not start mining.
C8_CreateFrame ==
    [][Len(blockchain'.lst) # Len(Chain) =>
        /\ Len(blockchain'.lst) = Len(Chain) + 1
        /\ blockchain'.count = blockchain.count + 1
        /\ blockchain'.lst[Len(Chain) + 1].previous_hash = blockchain.last_hash
        /\ blockchain'.lst[Len(Chain) + 1].nonce = None
        /\ blockchain'.last_hash = blockchain.last_hash
        /\ pc' = "idle"
        /\ objs'[transactions] = objs[transactions]
        /\ lists'[objs'[transactions].lst] = PoolList
        /\ \A i \in 1 .. Len(Chain) :
              /\ blockchain'.lst[i] = Chain[i]
              /\ SnapshotIn(lists', objs', blockchain'.lst[i]) = Snapshot(Chain[i])]_vars

C8_Witness ==
    /\ Len(Chain) = 2
    /\ pc = "idle"
    /\ Mined(1)
    /\ Constructed(2)
    /\ Chain[2].previous_hash = blockchain.last_hash
    /\ blockchain.last_hash # <<>>
    /\ Len(PoolList) > 0

\* ---------------------------------------------------------------- C9
\* C9: only the block at index count-1 has its nonce changed; last_hash
\* changes only when mine returns, and then it is the digest mine returned,
\* which is the proof hash of that block; so between calls last_hash is ""
\* or the proof hash of the most recently mined block (the mined block of
\* highest index).
MinedIndices == {i \in 1 .. Len(Chain) : Chain[i].nonce # None}
MaxOf(S) == CHOOSE m \in S : \A n \in S : n <= m

C9_Steps ==
    /\ \A i \in 1 .. Len(Chain) :
          blockchain'.lst[i].nonce # Chain[i].nonce => i = blockchain.count
    /\ blockchain'.last_hash # blockchain.last_hash => (pc = "mine" /\ pc' = "idle")
    /\ (pc = "mine" /\ pc' = "idle") =>
          /\ blockchain'.last_hash = ret[1]
          /\ blockchain'.last_hash = ProofHash(blockchain'.lst[blockchain.count])

C9_LastHash ==
    /\ [](pc = "idle" =>
            IF MinedIndices = {} THEN blockchain.last_hash = <<>>
            ELSE blockchain.last_hash = ProofHash(Chain[MaxOf(MinedIndices)]))
    /\ [][C9_Steps]_vars

C9_Witness ==
    /\ Len(Chain) = 2
    /\ pc = "idle"
    /\ Constructed(1)
    /\ Mined(2)
    /\ Chain[2].nonce > 0
    /\ blockchain.last_hash = ProofHash(Chain[2])
    /\ blockchain.last_hash # ProofHash([Chain[1] EXCEPT !.nonce = 0])

\* --------------------------------------------------------------- C10
\* C10: for the pool and for every snapshot held by a block, count equals
\* the length of the transaction sequence, in every reachable state.
C10_CountIsLength ==
    \A ref \in 1 .. Len(objs) : objs[ref].count = Len(lists[objs[ref].lst])

C10_Witness ==
    /\ Len(Chain) >= 1
    /\ Snapshot(Chain[1])[2] = 1
    /\ objs[transactions].count = 2
    /\ Len(PoolList) = 2

\* --------------------------------------------------------------- C11
\* the header of b with nonce n satisfies the difficulty predicate
Satisfies(b, n) ==
    LET c == [b EXCEPT !.nonce = n]
    IN  validate_difficulty(c, header_to_dict(c))[2]

TransferArgs == {Transaction(t[1], t[2], t[3]) : t \in Transfers}

C12_BlockHoldsPool ==
    [][/\ Len(lists'[objs'[transactions].lst]) > Len(PoolList) =>
            \E t \in TransferArgs :
                lists'[objs'[transactions].lst] = Append(PoolList, t)
       /\ Len(blockchain'.lst) > Len(Chain) =>
            SnapshotIn(lists', objs', blockchain'.lst[Len(Chain) + 1])
                = <<PoolList, Len(PoolList)>>
       /\ \A i \in 1 .. Len(Chain) :
            SnapshotIn(lists', objs', blockchain'.lst[i])[1] = Snapshot(Chain[i])[1]]_vars

\* arad -> alon, then daniel -> tyom, create_block, mine_last_block on a new
\* chain, and the pool cleared afterwards
C12_Witness ==
    /\ Len(Chain) = 1
    /\ blockchain.count = 1
    /\ Mined(1)
    /\ Snapshot(Chain[1])[1] = << Transaction("arad", "alon", 10),
                                  Transaction("daniel", "tyom", 7) >>
    /\ Snapshot(Chain[1])[1][1].sender = "arad"
    /\ PoolList = <<>>

\* --------------------------------------------------------------- C13
\* C13: a block of difficulty 0 that mine has been called on has nonce 0:
\* the first candidate is accepted (the search is about to return at once)
\* and the block is mined with nonce 0, whatever its previous_hash and
\* transaction_hash.
C13_ZeroDifficulty ==
    \A i \in 1 .. Len(Chain) :
        (Chain[i].difficulty = 0 /\ ~Constructed(i)) =>
            /\ Chain[i].nonce = 0
            /\ Mining(i) => (ret[2] /\ ret[1] = ProofHash(Chain[i]))

C13_Witness ==
    /\ Len(Chain) = 2
    /\ Mined(2)
    /\ Chain[2].difficulty = 0
    /\ Chain[2].nonce = 0
    /\ Chain[2].previous_hash # <<>>
    /\ Chain[2].transaction_hash # sha256(<<>>)
    /\ blockchain.last_hash = ProofHash(Chain[2])

\* --------------------------------------------------------------- C14
\* C14: a block created from an empty pool has for transaction_hash the
\* hash of the empty concatenation, the same for every such block whatever
\* the chain and its previous_hash; creating and mining it raises nothing,
\* and once mined its proof hash is a digest that satisfies its difficulty.
C14_EmptyPool ==
    \A i \in 1 .. Len(Chain) :
        Snapshot(Chain[i]) = << <<>>, 0 >> =>
            /\ Chain[i].transaction_hash = sha256(<<>>)
            /\ err = "none"
            /\ Mined(i) => endswith(ProofHash(Chain[i]), Zeros(Chain[i].difficulty))

\* the second block was created from a pool that had been cleared
C14_Witness ==
    /\ Len(Chain) = 2
    /\ Snapshot(Chain[1])[1] # <<>>
    /\ Snapshot(Chain[2]) = << <<>>, 0 >>
    /\ Chain[2].transaction_hash = sha256(<<>>)
    /\ Chain[2].previous_hash # <<>>
    /\ Chain[2].difficulty > 0
    /\ Mined(2)
    /\ pc = "idle"

\* --------------------------------------------------------------- C15
\* C15: a block's transaction_hash is the hash of its own snapshot, set when
\* the block is appended (nonce still absent); no later step changes the
\* transaction_hash, previous_hash, difficulty or snapshot of a block already
\* in the chain: only its nonce may change.
C15_Step ==
    /\ Len(blockchain'.lst) > Len(Chain) =>
          LET b == blockchain'.lst[Len(Chain) + 1]
          IN  /\ b.transaction_hash
                    = compute_transaction_hash(lists', objs', b.verified_transactions)
              /\ b.transaction_hash = compute_transaction_hash(lists, objs, transactions)
              /\ b.nonce = None
    /\ \A i \in 1 .. Len(Chain) :
          /\ [blockchain'.lst[i] EXCEPT !.nonce = None]
                = [Chain[i] EXCEPT !.nonce = None]
          /\ SnapshotIn(lists', objs', blockchain'.lst[i]) = Snapshot(Chain[i])

C15_HashFrozen ==
    /\ [](\A i \in 1 .. Len(Chain) :
             Chain[i].transaction_hash
                = compute_transaction_hash(lists, objs, Chain[i].verified_transactions))
    /\ [][C15_Step]_vars

\* block 1 was mined with a search of several nonces, the pool has changed
\* since it was created, and a block was created after it
C15_Witness ==
    /\ Len(Chain) = 2
    /\ pc = "idle"
    /\ Mined(1)
    /\ Chain[1].nonce > 1
    /\ Snapshot(Chain[1])[1] # PoolList
    /\ Snapshot(Chain[1])[1] # <<>>
    /\ Snapshot(Chain[2])[1] # Snapshot(Chain[1])[1]
    /\ Chain[1].transaction_hash # compute_transaction_hash(lists, objs, transactions)

\* --------------------------------------------------------------- C16
\* C16: the search starts at nonce 0 and goes up by one; no nonce below the
\* one stored in a block satisfies the difficulty predicate for its header,
\* and the nonce of a mined block does: it is the least such nonce.
C16_LeastNonce ==
    /\ [](\A i \in 1 .. Len(Chain) :
             ~Constructed(i) =>
                /\ \A m \in 0 .. (Chain[i].nonce - 1) : ~Satisfies(Chain[i], m)
                /\ Mined(i) => Satisfies(Chain[i], Chain[i].nonce))
    /\ [][\A i \in 1 .. Len(Chain) :
             blockchain'.lst[i].nonce # Chain[i].nonce =>
                \/ (pc = "idle" /\ blockchain'.lst[i].nonce = 0)
                \/ (pc = "mine" /\ blockchain'.lst[i].nonce = Chain[i].nonce + 1)]_vars

C16_Witness ==
    /\ pc = "idle"
    /\ LastMined
    /\ Chain[Last].difficulty >= 1
    /\ Chain[Last].nonce >= 2
    /\ ~Satisfies(Chain[Last], 0)
    /\ ~Satisfies(Chain[Last], Chain[Last].nonce - 1)
    /\ Satisfies(Chain[Last], Chain[Last].nonce)

\* --------------------------------------------------------------- C17
\* C17: the block appended by create_block carries the last_hash of that
\* moment and keeps it; so a block's previous_hash is "" when no block
\* before it has been mined and otherwise the proof hash of the nearest
\* mined block before it, and a block created right after a block that was
\* never mined carries the same previous_hash as that block.
MinedBefore(i) == {j \in 1 .. (i - 1) : Chain[j].nonce # None}

C17_Step ==
    /\ Len(blockchain'.lst) > Len(Chain) =>
          blockchain'.lst[Len(Chain) + 1].previous_hash = blockchain.last_hash
    /\ \A i \in 1 .. Len(Chain) :
          blockchain'.lst[i].previous_hash = Chain[i].previous_hash

C17_PreviousHash ==
    /\ [](\A i \in 1 .. Len(Chain) :
             /\ Chain[i].previous_hash =
                    IF MinedBefore(i) = {} THEN <<>>
                    ELSE ProofHash(Chain[MaxOf(MinedBefore(i))])
             /\ (i > 1 /\ Constructed(i - 1)) =>
                    Chain[i].previous_hash = Chain[i - 1].previous_hash)
    /\ [][C17_Step]_vars

\* two blocks created with no mine_last_block between them; the second was
\* mined afterwards, so last_hash has moved on while both keep ""
C17_Witness ==
    /\ Len(Chain) = 2
    /\ pc = "idle"
    /\ Constructed(1)
    /\ Mined(2)
    /\ Chain[2].previous_hash = Chain[1].previous_hash
    /\ blockchain.last_hash # Chain[2].previous_hash
    /\ Chain[1].transaction_hash # Chain[2].transaction_hash

\* --------------------------------------------------------------- C18
\* C18: a step changes the nonce of the block at the end of the chain only;
\* a block with no nonce that has a block after it, or gets one in this
\* step, still has no nonce after the step, and so never gets one.
C18_OnlyLastMined ==
    [][\A i \in 1 .. Len(Chain) :
          /\ blockchain'.lst[i].nonce # Chain[i].nonce =>
                (i = Len(Chain) /\ Len(blockchain'.lst) = Len(Chain))
          /\ (Constructed(i) /\ i < Len(blockchain'.lst)) =>
                blockchain'.lst[i] = Chain[i]]_vars

\* the first block was easy to mine but never was; the second has been
\* mined after a search
C18_Witness ==
    /\ Len(Chain) = 2
    /\ pc = "idle"
    /\ Constructed(1)
    /\ Chain[1].difficulty = 0
    /\ Mined(2)
    /\ Chain[2].difficulty >= 1
    /\ Chain[2].nonce > 0

\* --------------------------------------------------------------- C19
\* C19: when mine_last_block is called on a block that is already mined,
\* the block holds the least satisfying nonce and last_hash its proof hash;
\* every return of mine_last_block leaves exactly that nonce and that
\* hash, and a return that ends a repeated call (last_hash had moved on
\* from the block's previous_hash) leaves last_hash as it was.
LeastNonce(b) ==
    CHOOSE n \in 0 .. MaxNonce :
        Satisfies(b, n) /\ \A m \in 0 .. (n - 1) : ~Satisfies(b, m)

C19_Step ==
    /\ (pc = "idle" /\ pc' = "mine" /\ Chain[Last].nonce # None) =>
          /\ Chain[Last].nonce = LeastNonce(Chain[Last])
          /\ blockchain.last_hash = ProofHash(Chain[Last])
          /\ blockchain'.last_hash = blockchain.last_hash
    /\ (pc = "mine" /\ pc' = "idle") =>
          LET b == blockchain'.lst[Last']
          IN  /\ b.nonce = LeastNonce(b)
              /\ blockchain'.last_hash = ProofHash(b)
              /\ blockchain.last_hash # b.previous_hash =>
                    blockchain'.last_hash = blockchain.last_hash

C19_Idempotent == [][C19_Step]_vars

\* a repeated mine_last_block is about to return the digest that the first
\* call left in last_hash, after searching through several nonces again
C19_Witness ==
    /\ pc = "mine"
    /\ ret[2]
    /\ Chain[Last].nonce > 1
    /\ blockchain.last_hash # Chain[Last].previous_hash
    /\ ret[1] = blockchain.last_hash
    /\ blockchain.last_hash = ProofHash(Chain[Last])
====
